---------------------------- MODULE Spec2Model ----------------------------
(* Dependency graph builder of src/main.py: the analyzer's memoizing      *)
(* cache (DependencyAnalyzer), the bounded depth-first graph construction *)
(* with cycle detection (DependencyGraph._dfs) and the load order         *)
(* (DependencyGraph.get_load_order), as a state machine.  One run is what *)
(* main() does: construct analyzer and builder, build_complete_graph,     *)
(* get_load_order; extract_dependencies_for_package may also be called    *)
(* directly whenever no traversal is running.                             *)
EXTENDS Integers, Sequences, FiniteSets, TLC

VARIABLES
    manifest,              \* what the Manifest Source holds: package -> dependency list
    start_package,         \* config.parameters['package_name']
    max_depth,             \* config.parameters['max_depth']
    test_repository_mode,  \* config.parameters['test_repository_mode']
    cache,                 \* DependencyAnalyzer.cache
    graph,                 \* DependencyGraph.graph (defaultdict(list): keys exist once appended to)
    visited,               \* DependencyGraph.visited
    recursion_stack,       \* DependencyGraph.recursion_stack
    cycles,                \* DependencyGraph.cycles
    frames,                \* call stack of _dfs: one record per active call
    phase,                 \* position of the program: init, dfs, built, sort, done, error
    sort_visited,          \* get_load_order: visited
    temp_visited,          \* get_load_order: temp_visited
    stack,                 \* get_load_order: stack
    sort_frames,           \* call stack of topological_sort
    load_order,            \* value returned by get_load_order
    log,                   \* history of Manifest Source queries and of calls
    tree_frames,           \* call stack of print_compact_node
    tree_lines,            \* the lines print_ascii_tree has printed
    our_order,             \* compare_orders: argument our_order
    cargo_output,          \* compare_orders: argument cargo_output
    differences,           \* compare_orders: returned list
    compared               \* compare_orders has returned

vars == <<manifest, start_package, max_depth, test_repository_mode, cache, graph,
          visited, recursion_stack, cycles, frames, phase, sort_visited,
          temp_visited, stack, sort_frames, load_order, log, tree_frames,
          tree_lines, our_order, cargo_output, differences, compared>>

config == <<manifest, start_package, max_depth, test_repository_mode>>
builder == <<graph, visited, recursion_stack, cycles, frames>>
sorter == <<sort_visited, temp_visited, stack, sort_frames, load_order>>
rendering == <<tree_frames, tree_lines>>
comparison == <<our_order, cargo_output, differences, compared>>

-----------------------------------------------------------------------------
(* Bounds of the model *)

MaxDeps == 2        \* longest dependency list of a generated manifest
MaxEdges == 3       \* most dependency entries of a generated manifest
MaxDepth == 4       \* largest max_depth of a generated configuration
ScenarioDepth == 10 \* max_depth of the scenario runs on the test file
MaxFails == 1       \* most Manifest Source queries that fail in one run
MaxCalls == 2       \* most direct calls of extract_dependencies_for_package
MaxLines == 2       \* most lines of a reference tool output
MaxItems == 2       \* most words and blanks of one line of that output

SmallPkgs == {"A", "B", "C"}

-----------------------------------------------------------------------------
(* Sequences and dictionaries *)

Range(s) == {s[k] : k \in 1..Len(s)}

Reverse(s) == [k \in 1..Len(s) |-> s[Len(s) + 1 - k]]

\* list.index(x): position of the first occurrence (0 stands for ValueError)
Index(s, x) ==
    IF x \in Range(s) THEN CHOOSE k \in 1..Len(s) : s[k] = x /\ \A j \in 1..(k-1) : s[j] # x
    ELSE 0

\* positions at which x occurs in s
Occurrences(s, x) == {k \in 1..Len(s) : s[k] = x}

\* dict.get(k, default)
Get(d, k, default) == IF k \in DOMAIN d THEN d[k] ELSE default

\* d[k] = v
Put(d, k, v) == [x \in DOMAIN d \cup {k} |-> IF x = k THEN v ELSE d[x]]

\* defaultdict(list): d[k].append(v)
AppendTo(d, k, v) == Put(d, k, Append(Get(d, k, <<>>), v))

EmptyDict == [x \in {} |-> <<>>]

Pop(s) == SubSeq(s, 1, Len(s) - 1)

\* the value get_cargo_tree returns when cargo is missing, fails or raises
None == [available |-> FALSE, lines |-> <<>>]


-----------------------------------------------------------------------------
(* Manifest Source contents *)

\* the file written by create_test_file, as parsed by _extract_from_test_file
\* ("G:" and "K:" give an entry holding the empty list)
TestFile ==
    [p \in {"A", "B", "C", "D", "E", "F", "G", "H", "I", "J", "K"} |->
        CASE p = "A" -> <<"B", "C">>
          [] p = "B" -> <<"C", "D">>
          [] p = "C" -> <<"A", "E">>
          [] p = "D" -> <<"E", "F">>
          [] p = "E" -> <<"G">>
          [] p = "F" -> <<"G">>
          [] p = "H" -> <<"I", "J">>
          [] p = "I" -> <<"H">>
          [] p = "J" -> <<"K">>
          [] OTHER -> <<>>]

DepLists == UNION {[1..n -> SmallPkgs] : n \in 0..MaxDeps}

RECURSIVE SumLen(_, _)
SumLen(f, S) ==
    IF S = {} THEN 0
    ELSE LET x == CHOOSE y \in S : TRUE IN Len(f[x]) + SumLen(f, S \ {x})

\* a package without dependencies has no line in a generated manifest
Restrict(f) == [p \in {q \in DOMAIN f : f[q] # <<>>} |-> f[p]]

SmallManifests ==
    {Restrict(f) : f \in {g \in [SmallPkgs -> DepLists] : SumLen(g, SmallPkgs) <= MaxEdges}}

-----------------------------------------------------------------------------
(* DependencyAnalyzer *)

\* _extract_from_test_file: the parsed file; ok = FALSE is the missing file,
\* which raises
extract_from_test_file(ok) == [raised |-> ~ok, deps |-> manifest]

\* _get_crate_dependencies: the registry's answer; ok = FALSE is a transport
\* error, a timeout or a non-200 status, all of which return []
get_crate_dependencies(crate_name, ok) ==
    IF ok THEN Get(manifest, crate_name, <<>>) ELSE <<>>

\* extract_dependencies_for_package testing the stored list for truth
\* (if self.cache.get(package)) instead of testing the key
extract_truthy(c, package, ok) ==
    IF package \in DOMAIN c /\ c[package] # <<>>
    THEN [cache |-> c, result |-> c[package], raised |-> FALSE, fetched |-> FALSE]
    ELSE IF test_repository_mode
    THEN LET f == extract_from_test_file(ok) IN
         IF f.raised
         THEN [cache |-> c, result |-> <<>>, raised |-> TRUE, fetched |-> TRUE]
         ELSE LET result == Get(f.deps, package, <<>>) IN
              [cache |-> Put(c, package, result), result |-> result,
               raised |-> FALSE, fetched |-> TRUE]
    ELSE LET result == get_crate_dependencies(package, ok) IN
         [cache |-> Put(c, package, result), result |-> result,
          raised |-> FALSE, fetched |-> TRUE]

\* extract_dependencies_for_package on cache c: the cache afterwards, the
\* result, whether it raised, and whether the Manifest Source was queried
extract_dependencies_for_package(c, package, ok) ==
    IF package \in DOMAIN c
    THEN [cache |-> c, result |-> c[package], raised |-> FALSE, fetched |-> FALSE]
    ELSE IF test_repository_mode
    THEN LET f == extract_from_test_file(ok) IN
         IF f.raised
         THEN [cache |-> c, result |-> <<>>, raised |-> TRUE, fetched |-> TRUE]
         ELSE LET result == Get(f.deps, package, <<>>) IN
              [cache |-> Put(c, package, result), result |-> result,
               raised |-> FALSE, fetched |-> TRUE]
    ELSE LET result == get_crate_dependencies(package, ok) IN
         [cache |-> Put(c, package, result), result |-> result,
          raised |-> FALSE, fetched |-> TRUE]

\* one entry of the history: a call of extract_dependencies_for_package
\* (fetched: the Manifest Source was queried; ok: the query, if any, succeeded;
\* depth: current_depth of the _dfs call that made it, -1 for a direct call)
LogEntry(package, r, ok, depth) ==
    [package |-> package, fetched |-> r.fetched, ok |-> (~r.fetched) \/ ok,
     result |-> r.result, raised |-> r.raised, direct |-> depth < 0, depth |-> depth]

Fails == Cardinality({k \in 1..Len(log) : ~log[k].ok})

\* the outcomes the Manifest Source may have on the next query
Outcomes == IF Fails < MaxFails THEN {TRUE, FALSE} ELSE {TRUE}

TopLevel == phase \in {"init", "built", "done"}

DirectCalls == Cardinality({k \in 1..Len(log) : log[k].direct})


\* the packages a direct call asks about: the start package and the two
\* packages the test file lists without dependencies
CallPkgs == {start_package, "G", "K"}

\* a direct call of extract_dependencies_for_package(package); an exception
\* it raises goes to the caller and changes nothing
ExtractCall ==
    /\ TopLevel
    /\ DirectCalls < MaxCalls
    /\ \E package \in CallPkgs, ok \in Outcomes :
         LET r == extract_dependencies_for_package(cache, package, ok) IN
         /\ cache' = r.cache
         /\ log' = Append(log, LogEntry(package, r, ok, -1))
    /\ UNCHANGED <<config, rendering, comparison, builder, sorter, phase>>

-----------------------------------------------------------------------------
(* DependencyGraph.build_complete_graph and _dfs *)

\* a call _dfs(package, current_depth, max_depth, path), at its first line
DfsFrame(package, current_depth, path) ==
    [package |-> package, current_depth |-> current_depth, path |-> path,
     pc |-> "entry", dependencies |-> <<>>, i |-> 0]

Top == frames[Len(frames)]

AtDfs(pc) == phase = "dfs" /\ frames # <<>> /\ Top.pc = pc

\* the depth test written with > instead of >=
AtLimit_Strict(f) == f.current_depth > max_depth

\* line 79: if current_depth >= max_depth
AtLimit(f) == f.current_depth >= max_depth

\* the on-stack test left out
OnStack_Never(f) == FALSE

\* line 83: if package in self.recursion_stack
OnStack(f) == f.package \in recursion_stack

\* the visited test left out
Seen_Never(f) == FALSE

\* line 88: if package in self.visited
Seen(f) == f.package \in visited

\* the stack after the running call returns
Return == Pop(frames)

\* the stack after an exception leaves the running call: the caller made
\* the call inside its try block, so its loop is abandoned
Raise ==
    IF Len(frames) = 1 THEN <<>>
    ELSE [Pop(frames) EXCEPT ![Len(frames) - 1].i = Len(@.dependencies) + 1]

\* build_complete_graph(start_package), up to the call of _dfs
BuildCall ==
    /\ phase = "init"
    /\ phase' = "dfs"
    /\ frames' = <<DfsFrame(start_package, 0, <<>>)>>
    /\ UNCHANGED <<config, rendering, comparison, cache, graph, visited, recursion_stack, cycles, sorter, log>>

\* if current_depth >= max_depth: return
DfsDepthLimit ==
    /\ AtDfs("entry")
    /\ AtLimit(Top)
    /\ frames' = Return
    /\ UNCHANGED <<config, rendering, comparison, cache, graph, visited, recursion_stack, cycles, phase, sorter, log>>

\* the cycle recorded as the whole path, without path.index
DfsCycle_WholePath ==
    /\ AtDfs("entry")
    /\ ~AtLimit(Top)
    /\ OnStack(Top)
    /\ cycles' = Append(cycles, Append(Top.path, Top.package))
    /\ frames' = Return
    /\ UNCHANGED <<config, rendering, comparison, cache, graph, visited,
                   recursion_stack, phase, sorter, log>>

\* if package in self.recursion_stack: record the cycle and return
\* (path.index raises ValueError when the package is not on the path)
DfsCycle ==
    /\ AtDfs("entry")
    /\ ~AtLimit(Top)
    /\ OnStack(Top)
    /\ IF Index(Top.path, Top.package) # 0
       THEN /\ cycles' = Append(cycles,
                   SubSeq(Top.path, Index(Top.path, Top.package), Len(Top.path))
                       \o <<Top.package>>)
            /\ frames' = Return
            /\ phase' = phase
       ELSE /\ cycles' = cycles
            /\ frames' = Raise
            /\ phase' = IF Len(frames) = 1 THEN "error" ELSE phase
    /\ UNCHANGED <<config, rendering, comparison, cache, graph, visited, recursion_stack, sorter, log>>

\* if package in self.visited: return
DfsVisited ==
    /\ AtDfs("entry")
    /\ ~AtLimit(Top)
    /\ ~OnStack(Top)
    /\ Seen(Top)
    /\ frames' = Return
    /\ UNCHANGED <<config, rendering, comparison, cache, graph, visited, recursion_stack, cycles, phase, sorter, log>>

\* _dfs without its try: the exception leaves the call, and line 103 is
\* not reached
DfsExpand_Uncaught ==
    /\ AtDfs("entry")
    /\ ~AtLimit(Top)
    /\ ~OnStack(Top)
    /\ ~Seen(Top)
    /\ visited' = visited \cup {Top.package}
    /\ recursion_stack' = recursion_stack \cup {Top.package}
    /\ \E ok \in Outcomes :
         LET r == extract_dependencies_for_package(cache, Top.package, ok) IN
         /\ cache' = r.cache
         /\ log' = Append(log, LogEntry(Top.package, r, ok, Top.current_depth))
         /\ frames' = IF r.raised THEN Raise
                       ELSE [frames EXCEPT ![Len(frames)] =
                                [@ EXCEPT !.pc = "loop", !.dependencies = r.result,
                                          !.i = 1]]
         /\ phase' = IF r.raised /\ Len(frames) = 1 THEN "error" ELSE phase
    /\ UNCHANGED <<config, rendering, comparison, graph, cycles, sorter>>

\* _dfs creating the package's entry of the Graph before the loop
\* (self.graph[package] read on the defaultdict)
DfsExpand_TouchKey ==
    /\ AtDfs("entry")
    /\ ~AtLimit(Top)
    /\ ~OnStack(Top)
    /\ ~Seen(Top)
    /\ visited' = visited \cup {Top.package}
    /\ recursion_stack' = recursion_stack \cup {Top.package}
    /\ graph' = Put(graph, Top.package, Get(graph, Top.package, <<>>))
    /\ \E ok \in Outcomes :
         LET r == extract_dependencies_for_package(cache, Top.package, ok) IN
         /\ cache' = r.cache
         /\ log' = Append(log, LogEntry(Top.package, r, ok, Top.current_depth))
         /\ frames' = [frames EXCEPT ![Len(frames)] =
                          [@ EXCEPT !.pc = "loop",
                                    !.dependencies = IF r.raised THEN <<>> ELSE r.result,
                                    !.i = 1]]
    /\ UNCHANGED <<config, rendering, comparison, cycles, phase, sorter>>

\* mark the package, ask the analyzer for its dependencies; an exception is
\* caught by the except clause, which leaves nothing to loop over
DfsExpand ==
    /\ AtDfs("entry")
    /\ ~AtLimit(Top)
    /\ ~OnStack(Top)
    /\ ~Seen(Top)
    /\ visited' = visited \cup {Top.package}
    /\ recursion_stack' = recursion_stack \cup {Top.package}
    /\ \E ok \in Outcomes :
         LET r == extract_dependencies_for_package(cache, Top.package, ok) IN
         /\ cache' = r.cache
         /\ log' = Append(log, LogEntry(Top.package, r, ok, Top.current_depth))
         /\ frames' = [frames EXCEPT ![Len(frames)] =
                          [@ EXCEPT !.pc = "loop",
                                    !.dependencies = IF r.raised THEN <<>> ELSE r.result,
                                    !.i = 1]]
    /\ UNCHANGED <<config, rendering, comparison, graph, cycles, phase, sorter>>

\* the loop recording the edge only when the dependency is new
DfsLoop_SkipSeen ==
    /\ AtDfs("loop")
    /\ Top.i <= Len(Top.dependencies)
    /\ LET dep == Top.dependencies[Top.i] IN
       /\ graph' = IF dep \in visited THEN graph ELSE AppendTo(graph, Top.package, dep)
       /\ frames' = Append([frames EXCEPT ![Len(frames)].i = @ + 1],
                           DfsFrame(dep, Top.current_depth + 1,
                                    Append(Top.path, Top.package)))
    /\ UNCHANGED <<config, rendering, comparison, cache, visited, recursion_stack,
                   cycles, phase, sorter, log>>

\* one round of the loop: self.graph[package].append(dep); self._dfs(dep, ...)
DfsLoop ==
    /\ AtDfs("loop")
    /\ Top.i <= Len(Top.dependencies)
    /\ LET dep == Top.dependencies[Top.i] IN
       /\ graph' = AppendTo(graph, Top.package, dep)
       /\ frames' = Append([frames EXCEPT ![Len(frames)].i = @ + 1],
                           DfsFrame(dep, Top.current_depth + 1,
                                    Append(Top.path, Top.package)))
    /\ UNCHANGED <<config, rendering, comparison, cache, visited, recursion_stack, cycles, phase, sorter, log>>

\* _dfs returning without self.recursion_stack.remove(package)
DfsReturn_KeepOnStack ==
    /\ AtDfs("loop")
    /\ Top.i > Len(Top.dependencies)
    /\ frames' = Return
    /\ UNCHANGED <<config, rendering, comparison, cache, graph, visited,
                   recursion_stack, cycles, phase, sorter, log>>

\* after the loop or the except clause: self.recursion_stack.remove(package)
DfsReturn ==
    /\ AtDfs("loop")
    /\ Top.i > Len(Top.dependencies)
    /\ recursion_stack' = recursion_stack \ {Top.package}
    /\ frames' = Return
    /\ UNCHANGED <<config, rendering, comparison, cache, graph, visited, cycles, phase, sorter, log>>

\* return self.graph
BuildReturn ==
    /\ phase = "dfs"
    /\ frames = <<>>
    /\ phase' = "built"
    /\ UNCHANGED <<config, rendering, comparison, cache, builder, sorter, log>>

-----------------------------------------------------------------------------
(* DependencyGraph.get_load_order and its topological_sort *)

SortFrame(package) == [package |-> package, pc |-> "entry", i |-> 0]

SortTop == sort_frames[Len(sort_frames)]

AtSort(pc) == phase = "sort" /\ sort_frames # <<>> /\ SortTop.pc = pc

\* get_load_order(start_package), up to the call of topological_sort
LoadOrderCall ==
    /\ phase = "built"
    /\ phase' = "sort"
    /\ sort_visited' = {}
    /\ temp_visited' = {}
    /\ stack' = <<>>
    /\ sort_frames' = <<SortFrame(start_package)>>
    /\ UNCHANGED <<config, rendering, comparison, cache, builder, load_order, log>>

\* if package in temp_visited: return
SortTemp ==
    /\ AtSort("entry")
    /\ SortTop.package \in temp_visited
    /\ sort_frames' = Pop(sort_frames)
    /\ UNCHANGED <<config, rendering, comparison, cache, builder, phase, sort_visited, temp_visited, stack,
                   load_order, log>>

\* if package in visited: return
SortVisited ==
    /\ AtSort("entry")
    /\ SortTop.package \notin temp_visited
    /\ SortTop.package \in sort_visited
    /\ sort_frames' = Pop(sort_frames)
    /\ UNCHANGED <<config, rendering, comparison, cache, builder, phase, sort_visited, temp_visited, stack,
                   load_order, log>>

\* topological_sort without visited.add(package)
SortExpand_NoVisited ==
    /\ AtSort("entry")
    /\ SortTop.package \notin temp_visited
    /\ SortTop.package \notin sort_visited
    /\ temp_visited' = temp_visited \cup {SortTop.package}
    /\ sort_frames' = [sort_frames EXCEPT ![Len(sort_frames)] =
                          [@ EXCEPT !.pc = "loop", !.i = 1]]
    /\ UNCHANGED <<config, rendering, comparison, cache, builder, phase, sort_visited, stack, load_order, log>>

\* visited.add(package); temp_visited.add(package)
SortExpand ==
    /\ AtSort("entry")
    /\ SortTop.package \notin temp_visited
    /\ SortTop.package \notin sort_visited
    /\ sort_visited' = sort_visited \cup {SortTop.package}
    /\ temp_visited' = temp_visited \cup {SortTop.package}
    /\ sort_frames' = [sort_frames EXCEPT ![Len(sort_frames)] =
                          [@ EXCEPT !.pc = "loop", !.i = 1]]
    /\ UNCHANGED <<config, rendering, comparison, cache, builder, phase, stack, load_order, log>>

\* for dep in self.graph.get(package, []): topological_sort(dep)
SortLoop ==
    /\ AtSort("loop")
    /\ SortTop.i <= Len(Get(graph, SortTop.package, <<>>))
    /\ sort_frames' = Append([sort_frames EXCEPT ![Len(sort_frames)].i = @ + 1],
                             SortFrame(Get(graph, SortTop.package, <<>>)[SortTop.i]))
    /\ UNCHANGED <<config, rendering, comparison, cache, builder, phase, sort_visited, temp_visited, stack,
                   load_order, log>>

\* temp_visited.remove(package); stack.append(package)
SortReturn ==
    /\ AtSort("loop")
    /\ SortTop.i > Len(Get(graph, SortTop.package, <<>>))
    /\ temp_visited' = temp_visited \ {SortTop.package}
    /\ stack' = Append(stack, SortTop.package)
    /\ sort_frames' = Pop(sort_frames)
    /\ UNCHANGED <<config, rendering, comparison, cache, builder, phase, sort_visited, load_order, log>>

\* return stack[::-1]
LoadOrderReturn ==
    /\ phase = "sort"
    /\ sort_frames = <<>>
    /\ load_order' = Reverse(stack)
    /\ phase' = "done"
    /\ UNCHANGED <<config, rendering, comparison, cache, builder, sort_visited, temp_visited, stack,
                   sort_frames, log>>

-----------------------------------------------------------------------------
(* The program *)

Init ==
    /\ manifest \in SmallManifests \cup {TestFile}
    /\ start_package \in (IF manifest = TestFile THEN {"A", "H"} ELSE SmallPkgs)
    /\ max_depth \in (IF manifest = TestFile THEN 0..MaxDepth \cup {ScenarioDepth}
                                             ELSE 0..MaxDepth)
    /\ test_repository_mode \in BOOLEAN
    /\ cache = EmptyDict
    /\ graph = EmptyDict
    /\ visited = {}
    /\ recursion_stack = {}
    /\ cycles = <<>>
    /\ frames = <<>>
    /\ phase = "init"
    /\ sort_visited = {}
    /\ temp_visited = {}
    /\ stack = <<>>
    /\ sort_frames = <<>>
    /\ load_order = <<>>
    /\ log = <<>>
    /\ tree_frames = <<>>
    /\ tree_lines = <<>>
    /\ our_order = <<>>
    /\ cargo_output = None
    /\ differences = <<>>
    /\ compared = FALSE

Next ==
    \/ BuildCall
    \/ DfsDepthLimit
    \/ DfsCycle
    \/ DfsVisited
    \/ DfsExpand
    \/ DfsLoop
    \/ DfsReturn
    \/ BuildReturn
    \/ LoadOrderCall
    \/ SortTemp
    \/ SortVisited
    \/ SortExpand
    \/ SortLoop
    \/ SortReturn
    \/ LoadOrderReturn

\* main(): one build and one load order on a freshly constructed builder
Spec == Init /\ [][Next]_vars

\* the same run when every step that can be taken is taken in the end
LiveSpec == Init /\ [][Next]_vars /\ WF_vars(Next)

\* the same run on the test file, with direct calls of the analyzer before
\* and after the build
InitCalls == Init /\ manifest = TestFile

NextCalls ==
    \/ ExtractCall
    \/ Next

SpecCalls == InitCalls /\ [][NextCalls]_vars


-----------------------------------------------------------------------------
(* Vocabulary of the properties *)

Built == phase \in {"built", "sort", "done"}

Done == phase = "done"

NoFailure == Fails = 0

Max(a, b) == IF a >= b THEN a ELSE b

\* every package the Manifest Source or the configuration names
ManifestPkgs ==
    DOMAIN manifest \cup UNION {Range(manifest[p]) : p \in DOMAIN manifest}
        \cup {start_package}

\* number of edges of the longest dependency path from p in the manifest,
\* cut at n edges
RECURSIVE LongestFrom(_, _)
LongestFrom(p, n) ==
    IF n = 0 \/ Get(manifest, p, <<>>) = <<>> THEN 0
    ELSE LET deps == Get(manifest, p, <<>>)
             RECURSIVE Best(_)
             Best(k) == IF k = 0 THEN 0
                        ELSE Max(1 + LongestFrom(deps[k], n - 1), Best(k - 1))
         IN Best(Len(deps))

\* a path of as many edges as there are packages repeats a package
ManifestAcyclic ==
    \A p \in ManifestPkgs :
        LongestFrom(p, Cardinality(ManifestPkgs)) < Cardinality(ManifestPkgs)

\* depth of the manifest's graph below the start package
ManifestDepth == LongestFrom(start_package, Cardinality(ManifestPkgs))

\* every package that is a key or a value of the Graph
GraphPkgs == DOMAIN graph \cup UNION {Range(graph[p]) : p \in DOMAIN graph}

\* the packages the Graph's edges lead to from the packages of S
RECURSIVE Closure(_)
Closure(S) ==
    LET T == S \cup UNION {Range(Get(graph, p, <<>>)) : p \in S} IN
    IF T = S THEN S ELSE Closure(T)

\* b is reached from a along one or more edges of the Graph
Reaches(a, b) == b \in Closure(Range(Get(graph, a, <<>>)))

\* x occurs in s, and before every occurrence of y
Precedes(s, x, y) ==
    /\ x \in Range(s)
    /\ y \in Range(s)
    /\ Index(s, x) < Index(s, y)

-----------------------------------------------------------------------------
(* C1 *)

\* C1: after build_complete_graph on an acyclic manifest, with max_depth at
\* least the depth of the graph and no failed fetch, get_load_order returns
\* every dependency before its dependents: for every edge a -> b of the
\* Graph, b comes before a.
C1_DependenciesFirst ==
    (Done /\ NoFailure /\ ManifestAcyclic /\ max_depth >= ManifestDepth)
        => \A a \in DOMAIN graph : \A b \in Range(graph[a]) :
               Precedes(load_order, b, a)

-----------------------------------------------------------------------------
(* C2 *)

\* every package of the Graph occurs exactly once in the returned order
ExactlyOnce ==
    \A p \in GraphPkgs : Cardinality(Occurrences(load_order, p)) = 1

\* C2: for every manifest, start package and max_depth, the run of
\* build_complete_graph and get_load_order on a fresh builder ends, and
\* every package that is a key or a value of the Graph then occurs exactly
\* once in the returned order.
C2_EveryPackageOnce == <>Done /\ [](Done => ExactlyOnce)

\* a finished run whose Graph holds a cycle and a package that two others
\* depend on
C2_Witness ==
    /\ Done
    /\ cycles # <<>>
    /\ \E a \in DOMAIN graph, b \in DOMAIN graph :
           a # b /\ Range(graph[a]) \cap Range(graph[b]) # {}
    /\ ExactlyOnce

-----------------------------------------------------------------------------
(* C3 *)

\* C3: on a Graph with cycles the order still respects every edge a -> b
\* that lies on no cycle (b comes before a); on the test file with start A
\* and max_depth 10, G comes before E and F, and E and F before D.
C3_NonCyclicEdgesRespected ==
    /\ (Done /\ NoFailure /\ cycles # <<>>)
           => \A a \in DOMAIN graph : \A b \in Range(graph[a]) :
                  ~Reaches(b, a) => Precedes(load_order, b, a)
    /\ (Done /\ NoFailure /\ manifest = TestFile /\ start_package = "A"
            /\ max_depth = ScenarioDepth)
           => /\ Precedes(load_order, "G", "E")
              /\ Precedes(load_order, "G", "F")
              /\ Precedes(load_order, "E", "D")
              /\ Precedes(load_order, "F", "D")


-----------------------------------------------------------------------------
(* C4 *)

\* call j returned a result the Manifest Source gave or the cache held
Succeeded(j) == ~log[j].raised /\ log[j].ok

\* C4: once a call of extract_dependencies_for_package(X) has succeeded,
\* also with an empty list, no later call for X queries the Manifest Source,
\* and every later call returns the stored result: at most one query for X
\* succeeds, and two calls for X cause one query.
C4_FetchedOnce ==
    \A j \in 1..Len(log) : \A k \in 1..Len(log) :
        (j < k /\ log[j].package = log[k].package /\ Succeeded(j))
            => /\ ~log[k].fetched
               /\ log[k].result = log[j].result

\* a package without dependencies asked for twice: one query, then the
\* stored empty list
C4_Witness ==
    \E j \in 1..Len(log) : \E k \in 1..Len(log) :
        /\ j < k
        /\ log[j].package = log[k].package
        /\ log[j].fetched /\ Succeeded(j)
        /\ log[j].result = <<>>
        /\ ~log[k].fetched
        /\ log[k].result = <<>>
        /\ Cardinality({i \in 1..Len(log) :
               log[i].package = log[j].package /\ log[i].fetched}) = 1

-----------------------------------------------------------------------------
(* C5 *)

FailedAt(k) == log[k].fetched /\ ~log[k].ok

SucceededLater(k) ==
    \E j \in (k + 1)..Len(log) :
        log[j].package = log[k].package /\ log[j].fetched /\ log[j].ok

\* C5: a failed fetch is not memoized, in either mode: after the query for
\* X failed the cache holds no entry for X (until a query for X succeeds),
\* and the next call for X queries the Manifest Source again.
C5_FailureNotMemoized ==
    \A k \in 1..Len(log) :
        (FailedAt(k) /\ ~SucceededLater(k))
            => /\ log[k].package \notin DOMAIN cache
               /\ \A j \in (k + 1)..Len(log) :
                      log[j].package = log[k].package => log[j].fetched

-----------------------------------------------------------------------------
(* C6 *)

\* the _dfs call that expanded p ran at a depth below max_depth
ExpandedBelowLimit(p) ==
    \E k \in 1..Len(log) :
        ~log[k].direct /\ log[k].package = p /\ log[k].depth < max_depth

\* the query the build made for the start package succeeded
StartFetched ==
    \E k \in 1..Len(log) :
        /\ ~log[k].direct
        /\ log[k].package = start_package
        /\ log[k].fetched /\ Succeeded(k)

\* C6: every key of the Graph was expanded at a depth below max_depth;
\* max_depth = 0 gives the empty Graph; max_depth = 1 gives a Graph whose
\* only possible key is the start package, mapped to its direct
\* dependencies.
C6_DepthBound ==
    /\ \A p \in DOMAIN graph : ExpandedBelowLimit(p)
    /\ max_depth = 0 => graph = EmptyDict
    /\ max_depth = 1 =>
          /\ DOMAIN graph \subseteq {start_package}
          /\ (Built /\ StartFetched) =>
                 Get(graph, start_package, <<>>) = Get(manifest, start_package, <<>>)

\* max_depth = 1 on a manifest with grandchildren: the Graph holds the start
\* package's two dependencies and nothing below them
C6_Witness ==
    /\ Built
    /\ max_depth = 1
    /\ start_package \in DOMAIN graph
    /\ Len(graph[start_package]) = 2
    /\ \E d \in Range(graph[start_package]) :
           d # start_package /\ Get(manifest, d, <<>>) # <<>> /\ d \notin DOMAIN graph

-----------------------------------------------------------------------------
(* C7 *)

SelfLoop == start_package \in Range(Get(manifest, start_package, <<>>))

SelfCycleRecorded == <<start_package, start_package>> \in Range(cycles)

\* C7 as claimed: when the start package lists itself, for every positive
\* max_depth the finished build has recorded the cycle start, start.
C7_EveryPositiveDepth ==
    (Built /\ SelfLoop /\ StartFetched /\ max_depth >= 1) => SelfCycleRecorded

\* C7 as amended: when the start package lists itself, the build ends for
\* every max_depth, and for every max_depth of at least 2 the finished
\* build has recorded the cycle start, start.
C7_SelfLoopRecorded ==
    /\ <>Built
    /\ []((Built /\ SelfLoop /\ StartFetched /\ max_depth >= 2) => SelfCycleRecorded)

\* a finished build that recorded the self-loop and a longer cycle
C7_Witness ==
    /\ Built
    /\ SelfLoop
    /\ max_depth >= 2
    /\ SelfCycleRecorded
    /\ Len(cycles) >= 2

-----------------------------------------------------------------------------
(* C8 *)

ScenarioA ==
    /\ manifest = TestFile
    /\ start_package = "A"
    /\ max_depth = ScenarioDepth
    /\ NoFailure

\* C8: on the test file with start A and max_depth 10 the finished build
\* maps A to exactly B, C and has recorded exactly one cycle, A, B, C, A.
C8_ScenarioA ==
    (Built /\ ScenarioA)
        => /\ Get(graph, "A", <<>>) = <<"B", "C">>
           /\ cycles = << <<"A", "B", "C", "A">> >>

C8_Witness ==
    /\ Built
    /\ ScenarioA
    /\ Len(cycles) = 1
    /\ DOMAIN graph = {"A", "B", "C", "D", "E", "F"}

-----------------------------------------------------------------------------
(* C9 *)

IsPrefix(s, t) == Len(s) <= Len(t) /\ SubSeq(t, 1, Len(s)) = s

\* the calls of the build whose query failed
FailedExpansions == {k \in 1..Len(log) : ~log[k].direct /\ FailedAt(k)}

\* the _dfs call of package p is still running
Active(p) == \E n \in 1..Len(frames) : frames[n].package = p /\ frames[n].pc = "loop"

\* C9: a failed fetch does not abort the build.  The build ends and returns;
\* no exception leaves it; the failing package stays in visited and is off
\* the on-stack set once its call has returned; every expanded package,
\* the ancestors of the failing one included, ends with all the edges its
\* lookup gave (none for the failing one) and had each of them visited
\* where the depth allows; and no step removes an edge from the Graph.
C9_FailureIsLocal ==
    /\ <>Built
    /\ [](phase # "error")
    /\ [](\A k \in FailedExpansions :
              /\ log[k].package \in visited
              /\ log[k].package \in recursion_stack => Active(log[k].package))
    /\ [](Built =>
              /\ recursion_stack = {}
              /\ \A k \in 1..Len(log) : ~log[k].direct =>
                     /\ Get(graph, log[k].package, <<>>)
                            = (IF log[k].raised THEN <<>> ELSE log[k].result)
                     /\ log[k].depth + 1 < max_depth
                            => Range(log[k].result) \subseteq visited)
    /\ [][\A p \in DOMAIN graph :
              p \in DOMAIN graph' /\ IsPrefix(graph[p], graph'[p])]_vars

\* a finished build on the test file in which the lookup of a package below
\* the start failed with an exception and a package was expanded after it
C9_Witness ==
    /\ Built
    /\ test_repository_mode
    /\ \E k \in FailedExpansions :
           /\ log[k].raised
           /\ log[k].depth > 0
           /\ \E j \in (k + 1)..Len(log) : ~log[j].direct /\ Succeeded(j)
    /\ Cardinality(DOMAIN graph) >= 2

-----------------------------------------------------------------------------
(* C10 *)

ScenarioH ==
    /\ manifest = TestFile
    /\ start_package = "H"
    /\ max_depth = ScenarioDepth
    /\ NoFailure

\* C10: no key of the Graph ever maps to the empty list: a package without
\* dependencies is at most a value, read back as the empty list.  On the
\* test file with start H the finished build has recorded the cycle
\* H, I, H, and K is a value of the Graph but not a key.
C10_NoEmptyKeys ==
    /\ \A p \in DOMAIN graph : graph[p] # <<>>
    /\ (Built /\ ScenarioH)
           => /\ <<"H", "I", "H">> \in Range(cycles)
              /\ "K" \notin DOMAIN graph
              /\ "K" \in GraphPkgs
              /\ Get(graph, "K", <<>>) = <<>>

C10_Witness ==
    /\ Built
    /\ ScenarioH
    /\ "K" \in visited
    /\ "K" \in Range(Get(graph, "J", <<>>))


-----------------------------------------------------------------------------
(* C12 *)

\* a dependency cycle of the manifest can be reached from the start package
ReachableCycle ==
    LongestFrom(start_package, Cardinality(ManifestPkgs)) >= Cardinality(ManifestPkgs)

\* C12: with no failed fetch and max_depth greater than the number of
\* packages, the finished build has recorded a cycle if and only if the part
\* of the manifest's graph reachable from the start package holds a cycle.
C12_CycleDetectionExact ==
    (Built /\ NoFailure /\ max_depth > Cardinality(ManifestPkgs))
        => (cycles # <<>> <=> ReachableCycle)

\* a cycle through three packages, found at the largest depth a cycle of
\* the manifest can close at
C12_Witness ==
    /\ Built
    /\ NoFailure
    /\ max_depth > Cardinality(ManifestPkgs)
    /\ \E n \in 1..Len(cycles) : Len(cycles[n]) = 4

-----------------------------------------------------------------------------
(* C13 *)

ClosedPath(c) ==
    /\ Len(c) >= 2
    /\ c[1] = c[Len(c)]
    /\ \A i \in 1..(Len(c) - 1) : \A j \in 1..(Len(c) - 1) : i # j => c[i] # c[j]
    /\ \A i \in 1..(Len(c) - 1) : c[i + 1] \in Range(Get(graph, c[i], <<>>))

\* C13: in every reachable state each recorded cycle has at least two
\* elements, ends where it starts, repeats no other element, and each
\* consecutive pair of it is an edge already in the Graph.
C13_CyclesAreClosedPaths == \A n \in 1..Len(cycles) : ClosedPath(cycles[n])

\* a recorded cycle of two packages that does not pass through the start
C13_Witness ==
    \E n \in 1..Len(cycles) :
        /\ Len(cycles[n]) = 3
        /\ start_package \notin Range(cycles[n])
        /\ ClosedPath(cycles[n])

-----------------------------------------------------------------------------
(* C14 *)

\* the _dfs calls that expanded p
Expansions(p) == {k \in 1..Len(log) : ~log[k].direct /\ log[k].package = p}

\* the keys whose lists hold p
Parents(p) == {q \in DOMAIN graph : p \in Range(graph[q])}

\* C14: a package is expanded at most once in a build, and when the build
\* has returned without a failed fetch every key of the Graph maps to exactly
\* the list the Manifest Source gave for it, in its order.
C14_EdgesMirrorManifest ==
    /\ \A p \in visited : Cardinality(Expansions(p)) <= 1
    /\ (Built /\ NoFailure)
           => \A p \in DOMAIN graph : graph[p] = Get(manifest, p, <<>>)

\* a finished build in which a key of the Graph was reached again from a
\* second package
C14_Witness ==
    /\ Built
    /\ NoFailure
    /\ \E p \in DOMAIN graph :
           /\ Cardinality(Parents(p)) >= 2
           /\ graph[p] = Get(manifest, p, <<>>)

-----------------------------------------------------------------------------
(* C16 *)

\* the packages some dependency path of at most n edges leads to from the
\* start package
RECURSIVE Within(_)
Within(n) ==
    IF n = 0 THEN {start_package}
    ELSE LET W == Within(n - 1) IN
         W \cup UNION {Range(Get(manifest, p, <<>>)) : p \in W}

\* C16: when the build has returned without a failed fetch, every package
\* that a path of fewer than max_depth edges leads to has been expanded: it
\* is in visited and the Graph holds all the dependencies it declares.
C16_CompleteWithinDepth ==
    (Built /\ NoFailure /\ max_depth >= 1)
        => \A p \in Within(max_depth - 1) :
               /\ p \in visited
               /\ Get(graph, p, <<>>) = Get(manifest, p, <<>>)

-----------------------------------------------------------------------------
(* C19 *)

\* the packages of the _dfs calls that are inside their try block
OnPath == {frames[n].package : n \in {m \in 1..Len(frames) : frames[m].pc = "loop"}}

\* C19: throughout the build the on-stack set is part of visited and is
\* exactly the set of packages on the current path, which holds each of
\* them once and in ancestor order; every key of the Graph is in visited;
\* and once the build has returned, with or without failed fetches, the
\* on-stack set is empty.
C19_VisitState ==
    /\ recursion_stack \subseteq visited
    /\ recursion_stack = OnPath
    /\ \A n \in 1..Len(frames) :
           /\ frames[n].path = [k \in 1..(n - 1) |-> frames[k].package]
           /\ \A k \in 1..(n - 1) : frames[k].pc = "loop"
           /\ \A j \in 1..(n - 1) : \A k \in 1..(n - 1) :
                  j # k => frames[j].package # frames[k].package
    /\ DOMAIN graph \subseteq visited
    /\ Built => recursion_stack = {}

\* three packages on the path, after the lookup of a settled package failed
C19_Witness ==
    /\ phase = "dfs"
    /\ Cardinality(recursion_stack) = 3
    /\ recursion_stack = OnPath
    /\ \E k \in FailedExpansions : log[k].package \in visited \ recursion_stack


-----------------------------------------------------------------------------
(* C15 *)

\* the running _dfs call was made by another call for a package that is
\* visited and no longer on the stack
SettledRevisit ==
    /\ AtDfs("entry")
    /\ Len(frames) >= 2
    /\ ~AtLimit(Top)
    /\ ~OnStack(Top)
    /\ Seen(Top)

\* the call that made the running call
Caller == frames[Len(frames) - 1]

\* the caller lists the package once, so it did not discover it itself
SecondParent == Cardinality(Occurrences(Caller.dependencies, Top.package)) = 1

\* C15 as claimed: when the DFS reaches a settled package N from a second
\* parent P2, the edge P2 -> N is not in the Graph.
C15_SecondParentEdgeDropped ==
    (SettledRevisit /\ SecondParent)
        => Top.package \notin Range(Get(graph, Caller.package, <<>>))

\* C15 as amended: when the DFS reaches a settled package N from a second
\* parent P2, the edge P2 -> N is the last edge recorded for P2, and N keeps
\* exactly the edges its one expansion gave it.
C15_SecondParentEdgeRecorded ==
    (SettledRevisit /\ SecondParent)
        => /\ Caller.package \in DOMAIN graph
           /\ graph[Caller.package][Len(graph[Caller.package])] = Top.package
           /\ \A k \in Expansions(Top.package) :
                  Get(graph, Top.package, <<>>)
                      = (IF log[k].raised THEN <<>> ELSE log[k].result)
           /\ Cardinality(Expansions(Top.package)) = 1

\* a settled package with dependencies of its own, reached from a second
\* parent while another key already lists it
C15_Witness ==
    /\ SettledRevisit
    /\ SecondParent
    /\ Parents(Top.package) \ {Caller.package} # {}
    /\ Top.package \in DOMAIN graph
    /\ Top.package \in Range(graph[Caller.package])


-----------------------------------------------------------------------------
(* A second build on the same builder *)

\* the packages a build may be started from
StartPkgs == IF manifest = TestFile THEN {"A", "H"} ELSE SmallPkgs

\* build_complete_graph(s) called again on the builder of the first build:
\* nothing is reset (the fields are created in __init__ only)
RebuildCall ==
    /\ phase = "built"
    /\ phase' = "dfs"
    /\ \E s \in StartPkgs : frames' = <<DfsFrame(s, 0, <<>>)>>
    /\ UNCHANGED <<config, rendering, comparison, cache, graph, visited,
                   recursion_stack, cycles, sorter, log>>

NextRebuild ==
    \/ RebuildCall
    \/ Next

SpecRebuild == Init /\ [][NextRebuild]_vars

-----------------------------------------------------------------------------
(* C17 *)

\* C17: a second build_complete_graph call on the same builder starts from
\* an empty Graph, empty visited and on-stack sets and an empty cycle list.
C17_FreshPerBuild ==
    [][(phase = "built" /\ phase' = "dfs")
           => /\ graph' = EmptyDict
              /\ visited' = {}
              /\ recursion_stack' = {}
              /\ cycles' = <<>>]_vars


-----------------------------------------------------------------------------
(* DependencyGraph.print_ascii_tree *)

\* the pieces of a printed line; the box-drawing characters of the source
\* are written with | and + here
Blank == "    "
Bar == "|   "
LastConnector == "+-- "
MidConnector == "|-- "

\* one activation of print_compact_node(package, prefix, is_last, visited);
\* prefix is the list of the pieces it is concatenated from
TreeFrame(package, prefix, is_last, seen) ==
    [package |-> package, prefix |-> prefix, is_last |-> is_last,
     visited |-> seen, pc |-> "entry", i |-> 0]

\* a printed line: prefix, connector, package, and the repeat mark
TreeLine(prefix, connector, package, repeat) ==
    [prefix |-> prefix, connector |-> connector, package |-> package,
     repeat |-> repeat]

TreeTop == tree_frames[Len(tree_frames)]

AtTree(pc) == phase = "tree" /\ tree_frames # <<>> /\ TreeTop.pc = pc

\* visited.add(package) when every activation holds the one set object
AddVisited_Shared(fs, package) ==
    [k \in 1..Len(fs) |-> [fs[k] EXCEPT !.visited = @ \cup {package}]]

\* line 133: visited.add(package) changes the set of this activation only,
\* the callee was handed visited.copy() (line 144)
AddVisited(fs, package) ==
    [fs EXCEPT ![Len(fs)].visited = @ \cup {package}]

\* lines 123-124 and 146: return at once unless ascii_tree_mode is set,
\* else print_compact_node(start_package, "", True, set())
TreeCall ==
    /\ phase = "built"
    /\ \E ascii_tree_mode \in BOOLEAN :
         IF ascii_tree_mode
         THEN /\ phase' = "tree"
              /\ tree_frames' = <<TreeFrame(start_package, <<>>, TRUE, {})>>
         ELSE /\ phase' = "drawn"
              /\ tree_frames' = <<>>
    /\ tree_lines' = <<>>
    /\ UNCHANGED <<config, comparison, cache, builder, sorter, log>>

\* lines 129-131: the package is in visited: the repeat line, and return
TreeRepeat ==
    /\ AtTree("entry")
    /\ TreeTop.package \in TreeTop.visited
    /\ tree_lines' = Append(tree_lines,
           TreeLine(TreeTop.prefix, LastConnector, TreeTop.package, TRUE))
    /\ tree_frames' = Pop(tree_frames)
    /\ UNCHANGED <<config, comparison, cache, builder, sorter, log, phase>>

\* lines 133-141: add the package, print its line, and either start the loop
\* over its dependencies or return when it has none in the Graph
TreeNode ==
    /\ AtTree("entry")
    /\ TreeTop.package \notin TreeTop.visited
    /\ LET f == TreeTop
           added == AddVisited(tree_frames, f.package)
           connector == IF f.is_last THEN LastConnector ELSE MidConnector
       IN
       /\ tree_lines' = Append(tree_lines,
              TreeLine(f.prefix, connector, f.package, FALSE))
       /\ IF f.package \in DOMAIN graph /\ graph[f.package] # <<>>
          THEN tree_frames' =
                   [added EXCEPT ![Len(added)].pc = "loop", ![Len(added)].i = 1]
          ELSE tree_frames' = Pop(added)
    /\ UNCHANGED <<config, comparison, cache, builder, sorter, log, phase>>

\* lines 142-144: the next dependency is printed below this node, with the
\* longer prefix and a copy of this activation's visited set
TreeLoop ==
    /\ AtTree("loop")
    /\ LET f == TreeTop
           deps == graph[f.package]
       IN
       /\ f.i <= Len(deps)
       /\ LET new_prefix == Append(f.prefix, IF f.is_last THEN Blank ELSE Bar)
              is_last_dep == (f.i = Len(deps))
          IN
          tree_frames' =
              Append([tree_frames EXCEPT ![Len(tree_frames)].i = f.i + 1],
                     TreeFrame(deps[f.i], new_prefix, is_last_dep, f.visited))
    /\ UNCHANGED <<config, comparison, cache, builder, sorter, log, phase,
                   tree_lines>>

\* the loop of line 142 is exhausted: print_compact_node returns
TreeReturn ==
    /\ AtTree("loop")
    /\ TreeTop.i > Len(graph[TreeTop.package])
    /\ tree_frames' = Pop(tree_frames)
    /\ UNCHANGED <<config, comparison, cache, builder, sorter, log, phase,
                   tree_lines>>

\* line 146 returns: print_ascii_tree is over
TreeDone ==
    /\ phase = "tree"
    /\ tree_frames = <<>>
    /\ phase' = "drawn"
    /\ UNCHANGED <<config, rendering, comparison, cache, builder, sorter, log>>

\* main, lines 313-317: the build, then the tree of what it built
NextTree ==
    \/ BuildCall
    \/ DfsDepthLimit
    \/ DfsCycle
    \/ DfsVisited
    \/ DfsExpand
    \/ DfsLoop
    \/ DfsReturn
    \/ BuildReturn
    \/ TreeCall
    \/ TreeRepeat
    \/ TreeNode
    \/ TreeLoop
    \/ TreeReturn
    \/ TreeDone

SpecTree == Init /\ [][NextTree]_vars /\ WF_vars(NextTree)


-----------------------------------------------------------------------------
(* C18 *)

Drawn == phase = "drawn"

\* how deep line k is indented
Depth(k) == Len(tree_lines[k].prefix)

\* the line that line k hangs below at depth d: the last line above k that
\* is printed at depth d
AncestorAt(k, d) ==
    CHOOSE j \in 1..(k - 1) :
        /\ Depth(j) = d
        /\ \A m \in (j + 1)..(k - 1) : Depth(m) # d

\* the lines on the branch from the root down to line k, k excluded
Ancestors(k) == {AncestorAt(k, d) : d \in 0..(Depth(k) - 1)}

\* the lines printed directly below line k, top to bottom
ChildLines(k) ==
    SelectSeq([j \in 1..Len(tree_lines) |-> j],
              LAMBDA j : /\ j > k
                         /\ Depth(j) = Depth(k) + 1
                         /\ AncestorAt(j, Depth(k)) = k)

ChildPkgs(k) ==
    [n \in 1..Len(ChildLines(k)) |-> tree_lines[ChildLines(k)[n]].package]

\* every line hangs below a line one level up, the first line is the root
WellNested ==
    \A k \in 1..Len(tree_lines) :
        IF k = 1 THEN Depth(k) = 0 /\ tree_lines[k].package = start_package
        ELSE Depth(k) \in 1..(Depth(k - 1) + 1)

RepeatIffOwnAncestor ==
    \A k \in 1..Len(tree_lines) :
        tree_lines[k].repeat <=>
            tree_lines[k].package \in
                {tree_lines[j].package : j \in Ancestors(k)}

RepeatIsLeaf ==
    \A k \in 1..Len(tree_lines) :
        tree_lines[k].repeat => ChildLines(k) = <<>>

ExpandedInFull ==
    Drawn =>
        \A k \in 1..Len(tree_lines) :
            ~tree_lines[k].repeat =>
                ChildPkgs(k) = Get(graph, tree_lines[k].package, <<>>)

\* C18: the tree rendering terminates on every Graph; a line is a marked
\* repeat leaf without lines below it exactly when its package is on its
\* own branch above it, and every other line, shared between branches or
\* not, has the package's whole dependency list below it.
C18_TreeRendering ==
    /\ [](WellNested /\ RepeatIffOwnAncestor /\ RepeatIsLeaf /\ ExpandedInFull)
    /\ <>Drawn

\* a cyclic Graph drawn to the end with a repeat leaf, and a package that
\* is expanded in full on two branches
C18_Witness ==
    /\ Drawn
    /\ \E k \in 1..Len(tree_lines) : tree_lines[k].repeat
    /\ \E j, k \in 1..Len(tree_lines) :
         /\ j < k
         /\ tree_lines[j].package = tree_lines[k].package
         /\ ~tree_lines[j].repeat /\ ~tree_lines[k].repeat
         /\ j \notin Ancestors(k)
         /\ ChildLines(j) # <<>> /\ ChildLines(k) # <<>>


-----------------------------------------------------------------------------
(* CargoComparator.compare_orders *)

\* a line of the reference output is a list of items: words, and runs of
\* whitespace (Space)
Space == " "
Words == {"A", "B", "temp_project"}
Lines == UNION {[1..n -> Words \cup {Space}] : n \in 0..MaxItems}

\* what get_cargo_tree can hand over: None, or the list of lines, and the
\* lists compare_orders can be called with
CargoOutputs ==
    {None} \cup
    {[available |-> TRUE, lines |-> ls] :
        ls \in UNION {[1..n -> Lines] : n \in 0..MaxLines}}

\* a load order names no package twice
Orders ==
    {o \in UNION {[1..n -> SmallPkgs] : n \in 0..Cardinality(SmallPkgs)} :
        \A j, k \in 1..Len(o) : j # k => o[j] # o[k]}

\* line.split()
Split(line) == SelectSeq(line, LAMBDA item : item # Space)

\* line 244: line.split()[0] if line.split() else ""
FirstWord(line) == IF Split(line) # <<>> THEN Split(line)[1] ELSE ""

\* lines 242-246: the first words, without the synthetic root and repeats
RECURSIVE ParsePackages(_, _, _)
ParsePackages(lines, k, cargo_packages) ==
    IF k > Len(lines) THEN cargo_packages
    ELSE LET pkg == FirstWord(lines[k]) IN
         IF pkg # "" /\ pkg # "temp_project" /\ pkg \notin Range(cargo_packages)
         THEN ParsePackages(lines, k + 1, Append(cargo_packages, pkg))
         ELSE ParsePackages(lines, k + 1, cargo_packages)

\* the messages of the result, by what they report
Message(kind, pkgs, pkg, ours, cargo) ==
    [kind |-> kind, pkgs |-> pkgs, pkg |-> pkg, ours |-> ours, cargo |-> cargo]

Sentinel == Message("sentinel", {}, "", 0, 0)

\* line 238, not cargo_output: None and the empty list are both falsy
Falsy(out) == ~out.available \/ out.lines = <<>>

\* the orders in which a for loop may run through the set S
Enumerations(S) ==
    {e \in [1..Cardinality(S) -> S] : \A x \in S : \E k \in DOMAIN e : e[k] = x}

\* lines 236-275; enumeration is the order in which line 265 runs through
\* the set common
compare_orders(order, out, enumeration) ==
    IF Falsy(out) THEN <<Sentinel>>
    ELSE
    LET cargo_packages == ParsePackages(out.lines, 1, <<>>)
        our_missing == Range(order) \ Range(cargo_packages)
        cargo_missing == Range(cargo_packages) \ Range(order)
        differ(pkg) == Index(order, pkg) - 1 # Index(cargo_packages, pkg) - 1
        order_diff ==
            [k \in 1..Len(SelectSeq(enumeration, differ)) |->
                LET pkg == SelectSeq(enumeration, differ)[k] IN
                Message("order", {}, pkg,
                        (Index(order, pkg) - 1) + 1,
                        (Index(cargo_packages, pkg) - 1) + 1)]
    IN
      (IF our_missing # {}
       THEN <<Message("our_missing", our_missing, "", 0, 0)>> ELSE <<>>)
      \o
      (IF cargo_missing # {}
       THEN <<Message("cargo_missing", cargo_missing, "", 0, 0)>> ELSE <<>>)
      \o
      (IF order_diff # <<>>
       THEN <<Message("order_header", {}, "", 0, 0)>> \o order_diff ELSE <<>>)

\* differences = CargoComparator.compare_orders(our_load_order, cargo_output)
CompareCall ==
    /\ ~compared
    /\ compared' = TRUE
    /\ \E enumeration \in Enumerations(Range(our_order) \cap
                 Range(ParsePackages(cargo_output.lines, 1, <<>>))) :
         differences' = compare_orders(our_order, cargo_output, enumeration)
    /\ UNCHANGED <<config, rendering, cache, builder, sorter, log, phase,
                   our_order, cargo_output>>

\* the inputs of one call of compare_orders
InitCompare ==
    /\ manifest = TestFile
    /\ start_package = "A"
    /\ max_depth = ScenarioDepth
    /\ test_repository_mode = FALSE
    /\ cache = EmptyDict
    /\ graph = EmptyDict
    /\ visited = {}
    /\ recursion_stack = {}
    /\ cycles = <<>>
    /\ frames = <<>>
    /\ phase = "done"
    /\ sort_visited = {}
    /\ temp_visited = {}
    /\ stack = <<>>
    /\ sort_frames = <<>>
    /\ load_order = <<>>
    /\ log = <<>>
    /\ tree_frames = <<>>
    /\ tree_lines = <<>>
    /\ our_order \in Orders
    /\ cargo_output \in CargoOutputs
    /\ differences = <<>>
    /\ compared = FALSE

NextCompare == CompareCall

SpecCompare == InitCompare /\ [][NextCompare]_vars

-----------------------------------------------------------------------------
(* C11 *)

\* the package list the reference output names
ReferencePackages == ParsePackages(cargo_output.lines, 1, <<>>)

SameIdentifiers == Range(our_order) = Range(ReferencePackages)

\* no two common identifiers stand in one order in the derived list and in
\* the other order in the reference list
SameRelativePositions ==
    \A p, q \in Range(our_order) \cap Range(ReferencePackages) :
        (Index(our_order, p) < Index(our_order, q))
            <=> (Index(ReferencePackages, p) < Index(ReferencePackages, q))

\* C11: compare_orders returns the single sentinel message exactly when the
\* reference tool's output is unavailable, and otherwise the empty list
\* exactly when both lists hold the same identifiers and no common
\* identifier differs in relative position.
C11_SentinelIffUnavailable ==
    compared =>
        /\ (differences = <<Sentinel>>) <=> ~cargo_output.available
        /\ cargo_output.available =>
               ((differences = <<>>) <=>
                    (SameIdentifiers /\ SameRelativePositions))

=============================================================================
